---- MODULE Spec2Model ----
(***************************************************************************)
(* A model of the selection-mirroring extension (src/src/extension.ts):    *)
(* the synchronisation of one session (syncDocuments and the helpers it    *)
(* uses) and the life cycle of the sessions of one source document         *)
(* (the command of activate, closeExistingTempTab, closeHandler).          *)
(*                                                                         *)
(* Texts are sequences of one-character strings.  Positions and ranges     *)
(* are those of the editor API: a position is a (line, character) pair, a  *)
(* range a pair of positions with start <= end.                            *)
(***************************************************************************)
EXTENDS Integers, Sequences, FiniteSets, TLC

\* ------------------------------------------------------------------ bounds
\* The longest source or mirror text a user edit may produce.
MaxLen == 3
\* The number of user edits (to either buffer) in one behaviour.
MaxEdits == 3
\* The number of reconciliation passes suspended on their buffer edit.
MaxInFlight == 2
\* The number of ranges the initial selection may hold.
MaxSpans == 2
\* The number of invocations of the command in one behaviour.
MaxOpens == 3
\* The number of changes in the batch of one forward pass, where the passes
\* run one after another.
MaxBatch == 2
\* The number of saves of the mirror started in one behaviour.
MaxSaves == 3
\* The length of the source the command is run on, where the characters
\* that have been tracked are followed.
MaxMarked == 2

\* ------------------------------------------------------------------ texts
NL == "\n"
Letters == {"a", "b"}
Chars == Letters \cup {NL}

Position(l, c) == [line |-> l, character |-> c]

\* Position.isBefore, isBeforeOrEqual, isAfter, isAfterOrEqual
IsBefore(p, q) == p.line < q.line \/ (p.line = q.line /\ p.character < q.character)
IsBeforeOrEqual(p, q) == IsBefore(p, q) \/ p = q
IsAfter(p, q) == IsBefore(q, p)
IsAfterOrEqual(p, q) == IsBeforeOrEqual(q, p)

\* Position.translate: the position moved by the two deltas.  The editor's
\* Position constructor throws on a negative line or character; the callers
\* test the result with Illegal.
Translate(p, lineDelta, characterDelta) ==
  Position(p.line + lineDelta, p.character + characterDelta)
Illegal(p) == p.line < 0 \/ p.character < 0

\* new vscode.Range(a, b): the constructor orders its two positions.
Range(a, b) ==
  IF IsBefore(b, a) THEN [start |-> b, end |-> a] ELSE [start |-> a, end |-> b]

\* The 1-based indices of the line breaks of a text.
Breaks(t) == {i \in 1..Len(t) : t[i] = NL}
LineCount(t) == Cardinality(Breaks(t)) + 1
\* The offset at which line l (0-based) starts, and the one at which it ends.
LineStart(t, l) ==
  IF l = 0 THEN 0
  ELSE CHOOSE i \in Breaks(t) : Cardinality({j \in Breaks(t) : j < i}) = l - 1
LineEnd(t, l) ==
  IF l = LineCount(t) - 1 THEN Len(t) ELSE LineStart(t, l + 1) - 1
LineLength(t, l) == LineEnd(t, l) - LineStart(t, l)

\* TextDocument.positionAt, for an offset of the text.
PositionAt(t, offset) ==
  LET l == Cardinality({i \in Breaks(t) : i <= offset})
  IN  Position(l, offset - LineStart(t, l))

\* TextDocument.validatePosition: a position past the last line becomes the
\* end of the text, a character past the end of its line the end of the line.
ValidatePosition(t, p) ==
  IF p.line >= LineCount(t)
    THEN Position(LineCount(t) - 1, LineLength(t, LineCount(t) - 1))
    ELSE IF p.character > LineLength(t, p.line)
      THEN Position(p.line, LineLength(t, p.line))
      ELSE p

\* TextDocument.offsetAt
OffsetAt(t, p) ==
  LET q == ValidatePosition(t, p) IN LineStart(t, q.line) + q.character

\* TextDocument.getText(range)
GetText(t, r) == SubSeq(t, OffsetAt(t, r.start) + 1, OffsetAt(t, r.end))

\* String.split('\n')
SplitNL(t) ==
  [l \in 1..LineCount(t) |-> SubSeq(t, LineStart(t, l - 1) + 1, LineEnd(t, l - 1))]

\* String.includes
Includes(hay, needle) ==
  \E i \in 0..(Len(hay) - Len(needle)) : SubSeq(hay, i + 1, i + Len(needle)) = needle

\* (text.match(/\n/g) || []).length
CountNL(t) == Cardinality(Breaks(t))

\* String.trim().length > 0 (the line break is the only white space of Chars)
NotBlank(t) == \E i \in 1..Len(t) : t[i] # NL

\* The text with the characters at offsets [s, e) replaced by x.
Splice(t, s, e, x) == SubSeq(t, 1, s) \o x \o SubSeq(t, e + 1, Len(t))

\* ------------------------------------------- applyChangesToOriginalRanges
\* The callback of newRanges.map: the two ends of one range after one
\* change, before they are handed to the Range constructor.
TranslatedEnds(originalRange, change) ==
  LET changeStart == change.range.start
      changeEnd   == change.range.end
      newStart    == originalRange.start
      newEnd      == originalRange.end
      width       == changeEnd.character - changeStart.character
  IN  IF IsBeforeOrEqual(changeStart, newEnd) /\ IsAfterOrEqual(changeEnd, newStart)
        THEN [start |-> IF IsBefore(changeStart, newStart) THEN changeStart ELSE newStart,
              end   |-> IF IsAfter(changeEnd, newEnd)
                          THEN Translate(changeEnd, 0, Len(change.text))
                          ELSE Translate(changeEnd, 0, Len(change.text) - width)]
        ELSE IF IsBefore(changeEnd, newStart)
          THEN LET lineDelta == CountNL(change.text) - (changeEnd.line - changeStart.line)
                   charDelta == Len(change.text) - width
               IN  [start |-> Translate(newStart, lineDelta, charDelta),
                    end   |-> Translate(newEnd, lineDelta, charDelta)]
          ELSE [start |-> newStart, end |-> newEnd]

\* The loop over the changes.  thrown: a translate produced a negative line
\* or character, which the Position constructor rejects with an exception.
RECURSIVE TranslateAll(_, _)
TranslateAll(ranges, changes) ==
  IF changes = <<>> THEN [thrown |-> FALSE, ranges |-> ranges]
  ELSE LET ends == [i \in 1..Len(ranges) |-> TranslatedEnds(ranges[i], Head(changes))]
       IN  IF \E i \in 1..Len(ranges) : Illegal(ends[i].start) \/ Illegal(ends[i].end)
             THEN [thrown |-> TRUE, ranges |-> <<>>]
             ELSE TranslateAll([i \in 1..Len(ranges) |-> Range(ends[i].start, ends[i].end)],
                               Tail(changes))

\* newRanges.sort((a, b) => a.start.compareTo(b.start)): the sort is stable,
\* ranges of equal start keep their order.
StartsBefore(a, b) == IsBefore(a.start, b.start)
SortByStart(s) ==
  LET rank(i) == Cardinality({j \in 1..Len(s) :
                     StartsBefore(s[j], s[i]) \/ (~StartsBefore(s[i], s[j]) /\ j < i)}) + 1
  IN  [k \in 1..Len(s) |-> s[CHOOSE i \in 1..Len(s) : rank(i) = k]]

\* The merge loop over the sorted ranges.
RECURSIVE MergeLoop(_, _, _)
MergeLoop(currentRange, rest, mergedRanges) ==
  IF rest = <<>> THEN Append(mergedRanges, currentRange)
  ELSE LET nextRange == Head(rest) IN
       IF IsAfterOrEqual(currentRange.end, nextRange.start)
         THEN LET newEnd == IF IsAfterOrEqual(currentRange.end, nextRange.end)
                              THEN currentRange.end ELSE nextRange.end
              IN  MergeLoop(Range(currentRange.start, newEnd), Tail(rest), mergedRanges)
         ELSE MergeLoop(nextRange, Tail(rest), Append(mergedRanges, currentRange))

\* The sort without the merge loop after it.
SortedUnmerged(newRanges) == SortByStart(newRanges)

MergeRanges(newRanges) ==
  LET sorted == SortByStart(newRanges)
  IN  IF sorted = <<>> THEN <<>> ELSE MergeLoop(Head(sorted), Tail(sorted), <<>>)

applyChangesToOriginalRanges(originalRanges, changes) ==
  LET t == TranslateAll(originalRanges, changes)
  IN  IF t.thrown THEN t ELSE [thrown |-> FALSE, ranges |-> MergeRanges(t.ranges)]

\* ------------------------------------------------------ the derived texts
\* processPendingChanges, the loop that builds newExtractedText: the texts
\* of the ranges, a line break after each but the last.
RECURSIVE newExtractedText(_, _)
newExtractedText(doc, newRanges) ==
  IF newRanges = <<>> THEN <<>>
  ELSE GetText(doc, Head(newRanges))
       \o (IF Len(newRanges) > 1 THEN <<NL>> ELSE <<>>)
       \o newExtractedText(doc, Tail(newRanges))

\* The command, the loop over the selected ranges: the ranges whose text is
\* not blank are kept, and each kept text is followed by a line break unless
\* its range is the last of all the selected ranges.
validatedRanges(doc, selected) ==
  LET Keep(r) == NotBlank(GetText(doc, r)) IN SelectSeq(selected, Keep)

RECURSIVE SelectedFrom(_, _, _)
SelectedFrom(doc, selected, i) ==
  IF i > Len(selected) THEN <<>>
  ELSE (IF NotBlank(GetText(doc, selected[i]))
          THEN GetText(doc, selected[i]) \o (IF i < Len(selected) THEN <<NL>> ELSE <<>>)
          ELSE <<>>)
       \o SelectedFrom(doc, selected, i + 1)
selectedText(doc, selected) == SelectedFrom(doc, selected, 1)

\* ------------------------------------------------- extractedToOriginal
\* The range a line of the mirror is given to: the first of the ranges
\* whose source text includes the line (0: none does).
correspondingRange(doc, ranges, newLine) ==
  LET hits == {j \in 1..Len(ranges) : Includes(GetText(doc, ranges[j]), newLine)}
  IN  IF hits = {} THEN 0 ELSE CHOOSE j \in hits : \A k \in hits : j <= k

\* The loop over the lines of the mirror: the replace-edits of the source
\* and the ranges to store, one of each for every line that found a range.
ReversePlan(doc, ranges, newText) ==
  LET newLines == SplitNL(newText)
      Found(i) == correspondingRange(doc, ranges, newLines[i]) # 0
      found == SelectSeq([i \in 1..Len(newLines) |-> i], Found)
      rangeOf(k) == ranges[correspondingRange(doc, ranges, newLines[found[k]])]
      lineOf(k) == newLines[found[k]]
      \* a line of the split holds no line break: lineDelta is 0 and the
      \* last line of the line is the line
      charDelta(k) == Len(lineOf(k)) - (rangeOf(k).end.character - rangeOf(k).start.character)
  IN  [edits |-> [k \in 1..Len(found) |-> [range |-> rangeOf(k), text |-> lineOf(k)]],
       newOriginalRanges |->
         [k \in 1..Len(found) |->
            Range(rangeOf(k).start, Translate(rangeOf(k).end, 0, charDelta(k)))]]

\* --------------------------------------------------- workspace.applyEdit
\* The replace-edits of a WorkspaceEdit as offsets of the text they are
\* applied to.
EditOffsets(doc, edits) ==
  [k \in 1..Len(edits) |->
     [from |-> OffsetAt(doc, edits[k].range.start),
      to   |-> OffsetAt(doc, edits[k].range.end),
      text |-> edits[k].text]]

\* The editor refuses a set of edits two of which overlap.
Overlapping(doc, edits) ==
  LET o == EditOffsets(doc, edits)
  IN  \E i, j \in 1..Len(o) : i # j /\ o[i].from < o[j].to /\ o[j].from < o[i].to

\* The text after the edits, none overlapping another, all applied at once.
RECURSIVE ApplyFrom(_, _, _)
ApplyFrom(doc, sorted, cursor) ==
  IF sorted = <<>> THEN SubSeq(doc, cursor + 1, Len(doc))
  ELSE SubSeq(doc, cursor + 1, Head(sorted).from) \o Head(sorted).text
       \o ApplyFrom(doc, Tail(sorted), Head(sorted).to)
\* The edits in the order of their offsets, those of equal offset in the
\* order they were added.
SortByFrom(s) ==
  LET rank(i) == Cardinality({j \in 1..Len(s) :
                     s[j].from < s[i].from \/ (s[j].from = s[i].from /\ j < i)}) + 1
  IN  [k \in 1..Len(s) |-> s[CHOOSE i \in 1..Len(s) : rank(i) = k]]
ApplyEdits(doc, edits) == ApplyFrom(doc, SortByFrom(EditOffsets(doc, edits)), 0)

\* ------------------------------------------------------------------ state
VARIABLES
  \* one session (syncDocuments)
  source,             \* the text of originalDoc
  mirror,             \* the text of extractedDoc
  originalRanges,     \* originalRanges and tempTab.originalRanges (assigned together)
  pendingChanges,     \* the changes of the source not yet processed
  processingTimeout,  \* "null", or the handle of a timer that is "armed" or has "fired"
  orphanTimers,       \* the armed timers processingTimeout no longer refers to
  isUpdating,         \* the reentrancy flag
  isClosed,           \* tempTab.isClosed, set together with the disposal of the listeners
  inflight,           \* the passes suspended on their applyEdit, in the order issued
  nEdits,             \* history: the number of user edits so far
  burst,              \* history: the user's changes of the source notified since the
                      \* quiet-period timer was first armed and not yet fired
  \* the sessions of one source document (the command, the close handlers)
  activeTempTabs,     \* the session the map holds for the document's uri, 0: none
  debounceTimers,     \* whether the map holds an armed timer for the uri
  openings,           \* the timer callbacks of the command, each at its await
  tempTabs,           \* the sessions created so far, in the order registered
  nOpens,             \* history: the number of invocations of the command
  deactivated,        \* whether deactivate has been called
  deactivating,       \* the session deactivate is deleting the file of, 0: none
  \* history of the passes that run one after another (SpecPass)
  sourceBefore,       \* the source text before the first change of the batch
  rangesBefore,       \* the Range Set before the last pass
  lastPass,           \* the last pass run: "none", "forward", "thrown" or "reverse"
  tracked,            \* history: for each character of the source, whether it has
                      \* been inside a tracked range (SpecTrack)
  \* the saves of the mirror of one session (SpecSave)
  isProgrammaticSave, \* tempTab.isProgrammaticSave
  autosaveTimer,      \* whether the timer of debouncedAutosave is armed
  saving,             \* the saves of the mirror in progress, in the order started
  dirty,              \* whether the mirror has changes not yet saved
  originalSavedBy,    \* history: the kinds of save after which saveListener saved the source
  nSaves              \* history: the number of saves started

syncVars == <<source, mirror, originalRanges, pendingChanges, processingTimeout,
              orphanTimers, isUpdating, isClosed, inflight, nEdits, burst>>
lifeVars == <<activeTempTabs, debounceTimers, openings, tempTabs, nOpens,
              deactivated, deactivating>>
passVars == <<sourceBefore, rangesBefore, lastPass>>
saveVars == <<isProgrammaticSave, autosaveTimer, saving, dirty, originalSavedBy, nSaves>>
vars == <<syncVars, lifeVars, passVars, saveVars, tracked>>

\* No save of the mirror has been asked for, and no character is marked.
NoSaves ==
  /\ isProgrammaticSave = FALSE
  /\ autosaveTimer = FALSE
  /\ saving = <<>>
  /\ dirty = FALSE
  /\ originalSavedBy = {}
  /\ nSaves = 0

\* One user edit types one character or deletes one.
Typed == {<<c>> : c \in Chars}

\* The texts of exactly n characters.
TextsOfLen(n) == [1..n -> Chars]

\* The non-empty ranges of a text whose text is not blank.
SelectableRanges(doc) ==
  {Range(PositionAt(doc, s), PositionAt(doc, e)) :
     <<s, e>> \in {x \in (0..Len(doc)) \X (0..Len(doc)) :
                     x[1] < x[2] /\ NotBlank(SubSeq(doc, x[1] + 1, x[2]))}}

\* The selections the command may find: one to MaxSpans ranges, each before
\* and apart from the next.
Selections(doc) ==
  {sel \in UNION {[1..k -> SelectableRanges(doc)] : k \in 1..MaxSpans} :
     \A i \in 1..(Len(sel) - 1) : IsBefore(sel[i].end, sel[i + 1].start)}

\* The source documents a session is opened on.
InitSources == {<<"a", NL, "b">>, <<"a", "b", "a">>}

\* The session as syncDocuments leaves it: the mirror holds the text the
\* command wrote to the temporary file.
Init ==
  /\ source \in InitSources
  /\ \E sel \in Selections(source) :
       /\ originalRanges = validatedRanges(source, sel)
       /\ mirror = selectedText(source, sel)
  /\ pendingChanges = <<>>
  /\ processingTimeout = "null"
  /\ orphanTimers = 0
  /\ isUpdating = FALSE
  /\ isClosed = FALSE
  /\ inflight = <<>>
  /\ nEdits = 0
  /\ burst = <<>>
  /\ activeTempTabs = 0
  /\ debounceTimers = FALSE
  /\ openings = <<>>
  /\ tempTabs = <<>>
  /\ nOpens = 0
  /\ deactivated = FALSE
  /\ deactivating = 0
  /\ sourceBefore = <<>>
  /\ rangesBefore = <<>>
  /\ lastPass = "none"
  /\ tracked = <<>>
  /\ NoSaves

\* ------------------------------------------------------------- listeners
\* originalToExtracted, on a change event of the source document.
originalToExtracted(contentChanges) ==
  IF isClosed \/ isUpdating
    THEN UNCHANGED <<pendingChanges, processingTimeout>>
    ELSE /\ pendingChanges' = pendingChanges \o contentChanges
         \* clearTimeout(processingTimeout); processingTimeout = setTimeout(...)
         /\ processingTimeout' = "armed"

\* extractedToOriginal, on a change event of the mirror document, newText
\* being the text of the mirror after the change: up to the applyEdit it
\* awaits.  queue: the passes in flight when the event arrives.
extractedToOriginal(newText, queue) ==
  IF isClosed \/ isUpdating
    THEN /\ isUpdating' = isUpdating
         /\ inflight' = queue
    ELSE LET plan == ReversePlan(source, originalRanges, newText)
         IN  /\ isUpdating' = TRUE
             /\ inflight' = Append(queue,
                  [dir |-> "reverse", stage |-> "issued", edits |-> plan.edits,
                   newRanges |-> plan.newOriginalRanges])

\* ------------------------------------------------------------ user edits
\* The user replaces the characters at offsets [s, e) of the source by x.
\* The source is followed while the session is open; once it is closed no
\* listener of the session hears of its edits.  burst records the change
\* when the listener takes it or when it arrives while the timer is armed.
UserEditSource(s, e, x) ==
  LET change == [range |-> Range(PositionAt(source, s), PositionAt(source, e)),
                 text |-> x]
  IN  /\ nEdits < MaxEdits
      /\ ~isClosed
      /\ Len(Splice(source, s, e, x)) <= MaxLen
      /\ source' = Splice(source, s, e, x)
      /\ nEdits' = nEdits + 1
      /\ originalToExtracted(<<change>>)
      /\ burst' = IF ~isClosed /\ (~isUpdating \/ processingTimeout = "armed")
                    THEN Append(burst, change) ELSE burst
      /\ UNCHANGED <<mirror, originalRanges, orphanTimers, isUpdating, isClosed, inflight>>

\* The user replaces the characters at offsets [s, e) of the mirror by x.
\* The mirror is edited in its tab, which a closed session no longer has.
UserEditMirror(s, e, x) ==
  /\ nEdits < MaxEdits
  /\ ~isClosed
  /\ Len(Splice(mirror, s, e, x)) <= MaxLen
  /\ isUpdating \/ Len(inflight) < MaxInFlight
  /\ mirror' = Splice(mirror, s, e, x)
  /\ nEdits' = nEdits + 1
  /\ extractedToOriginal(mirror', inflight)
  /\ UNCHANGED <<source, originalRanges, pendingChanges, processingTimeout,
                 orphanTimers, isClosed, burst>>

\* ---------------------------------------------------------- forward pass
\* The source document stays open while the session lives.
originalDocIsClosed == FALSE

\* The callback of the quiet-period timer, from its start to the applyEdit
\* that processPendingChanges awaits.  handle, orphans: processingTimeout
\* and orphanTimers once the timer that fires is no longer armed.
ProcessingCallback(handle, orphans) ==
  /\ burst' = <<>>
  /\ UNCHANGED <<source, mirror, originalRanges, isClosed, nEdits>>
  /\ IF originalDocIsClosed \/ pendingChanges = <<>>
       THEN \* processPendingChanges returns; processingTimeout = null
            /\ processingTimeout' = "null"
            /\ orphanTimers' = orphans + (IF handle = "armed" THEN 1 ELSE 0)
            /\ UNCHANGED <<pendingChanges, isUpdating, inflight>>
       ELSE LET changes == pendingChanges
                result == applyChangesToOriginalRanges(originalRanges, changes)
                fullRange == Range(PositionAt(mirror, 0), PositionAt(mirror, Len(mirror)))
            IN  /\ pendingChanges' = <<>>
                /\ processingTimeout' = handle
                /\ orphanTimers' = orphans
                /\ IF result.thrown
                     THEN \* the exception leaves the callback
                          UNCHANGED <<isUpdating, inflight>>
                     ELSE /\ Len(inflight) < MaxInFlight
                          /\ isUpdating' = TRUE
                          /\ inflight' = Append(inflight,
                               [dir |-> "forward", stage |-> "issued",
                                edits |-> <<[range |-> fullRange,
                                             text |-> newExtractedText(source, result.ranges)]>>,
                                newRanges |-> result.ranges])

\* The timer processingTimeout refers to fires.
TimerFires ==
  /\ processingTimeout = "armed"
  /\ ProcessingCallback("fired", orphanTimers)

\* A timer fires that was armed when processingTimeout was set to null.
OrphanTimerFires ==
  /\ orphanTimers > 0
  /\ ProcessingCallback(processingTimeout, orphanTimers - 1)

\* ------------------------------------------------- the awaited applyEdit
\* The change event of an applied WorkspaceEdit lists its edits.
ContentChanges(doc, edits) ==
  LET o == EditOffsets(doc, edits)
  IN  [k \in 1..Len(o) |->
         [range |-> Range(PositionAt(doc, o[k].from), PositionAt(doc, o[k].to)),
          text |-> o[k].text]]

\* The edit of the oldest pass in flight is applied to its document, and the
\* change event of the document reaches the two listeners.
ApplyEditApplied ==
  /\ inflight # <<>>
  /\ Head(inflight).stage = "issued"
  /\ LET pass == Head(inflight)
         queue == <<[pass EXCEPT !.stage = "applied"]>> \o Tail(inflight)
     IN  IF pass.dir = "forward"
           THEN /\ isClosed \/ isUpdating \/ Len(inflight) < MaxInFlight
                /\ mirror' = ApplyEdits(mirror, pass.edits)
                /\ extractedToOriginal(mirror', queue)
                /\ UNCHANGED <<source, pendingChanges, processingTimeout>>
           ELSE /\ ~Overlapping(source, pass.edits)
                /\ source' = ApplyEdits(source, pass.edits)
                /\ inflight' = queue
                /\ IF pass.edits = <<>>
                     THEN UNCHANGED <<pendingChanges, processingTimeout>>
                     ELSE originalToExtracted(ContentChanges(source, pass.edits))
                /\ UNCHANGED <<mirror, isUpdating>>
  /\ UNCHANGED <<originalRanges, orphanTimers, isClosed, nEdits, burst>>

\* applyEdit is rejected: the exception leaves the pass at its await, and
\* the statements after it are not run.
ApplyEditRejected ==
  /\ inflight # <<>>
  /\ Head(inflight).stage = "issued"
  /\ inflight' = Tail(inflight)
  /\ UNCHANGED <<source, mirror, originalRanges, pendingChanges, processingTimeout,
                 orphanTimers, isUpdating, isClosed, nEdits, burst>>

\* The oldest pass in flight goes on after its await: it stores the ranges
\* and clears the flag; the timer callback of a forward pass then sets
\* processingTimeout to null.
ResumeAfterAwait ==
  /\ originalRanges' = Head(inflight).newRanges
  /\ isUpdating' = FALSE
  /\ inflight' = Tail(inflight)
  /\ IF Head(inflight).dir = "forward"
       THEN /\ processingTimeout' = "null"
            /\ orphanTimers' = orphanTimers + (IF processingTimeout = "armed" THEN 1 ELSE 0)
       ELSE UNCHANGED <<processingTimeout, orphanTimers>>
  /\ UNCHANGED <<source, mirror, pendingChanges, isClosed, nEdits, burst>>

\* The promise of an applied edit resolves.
PassResumes ==
  /\ inflight # <<>>
  /\ Head(inflight).stage = "applied"
  /\ ResumeAfterAwait

\* The editor does not apply the edit: applyEdit resolves to false, no
\* document changes, and the pass goes on.
ApplyEditRefused ==
  /\ inflight # <<>>
  /\ Head(inflight).stage = "issued"
  /\ ResumeAfterAwait

\* ------------------------------------------------------------------ close
\* closeHandler finds the mirror no longer shown: it sets tempTab.isClosed
\* and disposes of the listeners.
CloseSession ==
  /\ ~isClosed
  /\ isClosed' = TRUE
  /\ UNCHANGED <<source, mirror, originalRanges, pendingChanges, processingTimeout,
                 orphanTimers, isUpdating, inflight, nEdits, burst>>

UserEditsSource ==
  \/ \E s \in 0..Len(source) : \E x \in Typed : UserEditSource(s, s, x)
  \/ \E s \in 0..(Len(source) - 1) : UserEditSource(s, s + 1, <<>>)

UserEditsMirror ==
  \/ \E s \in 0..Len(mirror) : \E x \in Typed : UserEditMirror(s, s, x)
  \/ \E s \in 0..(Len(mirror) - 1) : UserEditMirror(s, s + 1, <<>>)

Next ==
  \/ UserEditsSource /\ UNCHANGED <<lifeVars, passVars, saveVars, tracked>>
  \/ UserEditsMirror /\ UNCHANGED <<lifeVars, passVars, saveVars, tracked>>
  \/ TimerFires /\ UNCHANGED <<lifeVars, passVars, saveVars, tracked>>
  \/ OrphanTimerFires /\ UNCHANGED <<lifeVars, passVars, saveVars, tracked>>
  \/ ApplyEditApplied /\ UNCHANGED <<lifeVars, passVars, saveVars, tracked>>
  \/ ApplyEditRefused /\ UNCHANGED <<lifeVars, passVars, saveVars, tracked>>
  \/ ApplyEditRejected /\ UNCHANGED <<lifeVars, passVars, saveVars, tracked>>
  \/ PassResumes /\ UNCHANGED <<lifeVars, passVars, saveVars, tracked>>
  \/ CloseSession /\ UNCHANGED <<lifeVars, passVars, saveVars, tracked>>

Spec == Init /\ [][Next]_vars


\* ------------------------------------------------------- session life cycle
\* The sessions of one source document, without their texts: the command
\* extension.separate with its debounce timer and the awaits of its timer
\* callback, closeExistingTempTab, and the closeHandler of each session.
\*
\* A session (TempTab) is [isClosed, disposed, fileExists, tabShown, handler]:
\* disposed once its three listeners are disposed of, handler the place of
\* its closeHandler ("idle", "unlinking" at its await of unlinkAsync, "done").
\* An opening is [pc, old]: pc the await the callback is suspended at, old
\* the session closeExistingTempTab is closing (0: none).
IsOpen(t) == ~t.isClosed /\ ~t.disposed

InitLife ==
  /\ activeTempTabs = 0
  /\ debounceTimers = FALSE
  /\ openings = <<>>
  /\ tempTabs = <<>>
  /\ nOpens = 0
  /\ deactivated = FALSE
  /\ deactivating = 0
  /\ sourceBefore = <<>>
  /\ rangesBefore = <<>>
  /\ lastPass = "none"
  /\ tracked = <<>>
  /\ NoSaves
  /\ source = <<>>
  /\ mirror = <<>>
  /\ originalRanges = <<>>
  /\ pendingChanges = <<>>
  /\ processingTimeout = "null"
  /\ orphanTimers = 0
  /\ isUpdating = FALSE
  /\ isClosed = FALSE
  /\ inflight = <<>>
  /\ nEdits = 0
  /\ burst = <<>>

\* The command is run on a valid selection: it replaces the armed timer of
\* the uri, if there is one, by a new one.  The command is registered until
\* the extension is deactivated (context.subscriptions).
SeparateCommand ==
  /\ ~deactivated
  /\ nOpens < MaxOpens
  /\ nOpens' = nOpens + 1
  /\ debounceTimers' = TRUE
  /\ UNCHANGED <<activeTempTabs, openings, tempTabs, deactivated, deactivating>>

\* The timer of the command fires: the callback runs to its first await,
\* which is in closeExistingTempTab when the map holds a session that is
\* not closed, and the await of writeFileAsync otherwise.
DebounceFires ==
  /\ debounceTimers
  /\ debounceTimers' = FALSE
  /\ IF activeTempTabs = 0 \/ tempTabs[activeTempTabs].isClosed
       THEN /\ openings' = Append(openings, [pc |-> "write", old |-> 0])
            /\ UNCHANGED <<activeTempTabs, tempTabs>>
       ELSE LET old == activeTempTabs IN
            IF tempTabs[old].tabShown
              THEN \* await vscode.window.tabGroups.close(tabToClose)
                   /\ openings' = Append(openings, [pc |-> "closeTab", old |-> old])
                   /\ UNCHANGED <<activeTempTabs, tempTabs>>
              ELSE IF tempTabs[old].fileExists
                THEN \* dispose; await unlinkAsync
                     /\ tempTabs' = [tempTabs EXCEPT ![old].disposed = TRUE]
                     /\ openings' = Append(openings, [pc |-> "unlinkOld", old |-> old])
                     /\ UNCHANGED activeTempTabs
                ELSE /\ tempTabs' = [tempTabs EXCEPT ![old].disposed = TRUE,
                                                     ![old].isClosed = TRUE]
                     /\ activeTempTabs' = 0
                     /\ openings' = Append(openings, [pc |-> "write", old |-> 0])
  /\ UNCHANGED <<nOpens, deactivated, deactivating>>

\* The tab of a session closes, on the user's request or on that of
\* closeExistingTempTab, and the visible editors change: the closeHandler
\* of the session, if still registered, runs to its await of unlinkAsync.
TabCloses(s) ==
  /\ tempTabs[s].tabShown
  /\ IF tempTabs[s].disposed
       THEN /\ tempTabs' = [tempTabs EXCEPT ![s].tabShown = FALSE]
            /\ UNCHANGED activeTempTabs
       ELSE IF tempTabs[s].fileExists
         THEN /\ tempTabs' = [tempTabs EXCEPT ![s].tabShown = FALSE, ![s].isClosed = TRUE,
                                              ![s].disposed = TRUE, ![s].handler = "unlinking"]
              /\ UNCHANGED activeTempTabs
         ELSE /\ tempTabs' = [tempTabs EXCEPT ![s].tabShown = FALSE, ![s].isClosed = TRUE,
                                              ![s].disposed = TRUE, ![s].handler = "done"]
              /\ activeTempTabs' = 0
  /\ UNCHANGED <<debounceTimers, openings, nOpens, deactivated, deactivating>>

\* closeHandler after its await: activeTempTabs.delete(tempTab.originalUri).
HandlerAfterUnlink(s) ==
  /\ tempTabs[s].handler = "unlinking"
  /\ tempTabs' = [tempTabs EXCEPT ![s].fileExists = FALSE, ![s].handler = "done"]
  /\ activeTempTabs' = 0
  /\ UNCHANGED <<debounceTimers, openings, nOpens, deactivated, deactivating>>

\* closeExistingTempTab after its await of tabGroups.close.
AfterCloseTab(o) ==
  LET old == openings[o].old IN
  /\ openings[o].pc = "closeTab"
  /\ ~tempTabs[old].tabShown
  /\ IF tempTabs[old].fileExists
       THEN /\ tempTabs' = [tempTabs EXCEPT ![old].disposed = TRUE]
            /\ openings' = [openings EXCEPT ![o].pc = "unlinkOld"]
            /\ UNCHANGED activeTempTabs
       ELSE /\ tempTabs' = [tempTabs EXCEPT ![old].disposed = TRUE, ![old].isClosed = TRUE]
            /\ activeTempTabs' = 0
            /\ openings' = [openings EXCEPT ![o].pc = "write", ![o].old = 0]
  /\ UNCHANGED <<debounceTimers, nOpens, deactivated, deactivating>>

\* closeExistingTempTab after its await of unlinkAsync, and the callback up
\* to its await of writeFileAsync.
AfterUnlinkOld(o) ==
  LET old == openings[o].old IN
  /\ openings[o].pc = "unlinkOld"
  /\ tempTabs' = [tempTabs EXCEPT ![old].fileExists = FALSE, ![old].isClosed = TRUE]
  /\ activeTempTabs' = 0
  /\ openings' = [openings EXCEPT ![o].pc = "write", ![o].old = 0]
  /\ UNCHANGED <<debounceTimers, nOpens, deactivated, deactivating>>

\* The awaits of the callback in their order: writeFileAsync,
\* openTextDocument, setTextDocumentLanguage, showTextDocument.
NextAwait(pc) ==
  CASE pc = "write" -> "open"
    [] pc = "open" -> "lang"
    [] pc = "lang" -> "show"

\* One of the first three of them resolves.
AwaitResolves(o) ==
  /\ openings[o].pc \in {"write", "open", "lang"}
  /\ openings' = [openings EXCEPT ![o].pc = NextAwait(openings[o].pc)]
  /\ UNCHANGED <<activeTempTabs, debounceTimers, tempTabs, nOpens, deactivated, deactivating>>

\* writeFileAsync, openTextDocument or showTextDocument fails: the callback
\* reports the error and returns.
AwaitFails(o) ==
  /\ openings[o].pc \in {"write", "open", "show"}
  /\ openings' = [openings EXCEPT ![o].pc = "failed"]
  /\ UNCHANGED <<activeTempTabs, debounceTimers, tempTabs, nOpens, deactivated, deactivating>>

\* showTextDocument resolves: the callback creates the session, puts it in
\* the map and registers its listeners (syncDocuments).
RegisterSession(o) ==
  /\ openings[o].pc = "show"
  /\ tempTabs' = Append(tempTabs, [isClosed |-> FALSE, disposed |-> FALSE,
                                   fileExists |-> TRUE, tabShown |-> TRUE,
                                   handler |-> "idle"])
  /\ activeTempTabs' = Len(tempTabs) + 1
  /\ openings' = [openings EXCEPT ![o].pc = "done"]
  /\ UNCHANGED <<debounceTimers, nOpens, deactivated, deactivating>>

\* deactivate: for the session the map holds, the callback of forEach runs
\* to its await of unlinkAsync.  The command is disposed of with the
\* subscriptions of the extension; the map, the timers and the sessions the
\* map does not hold are left as they are.
Deactivate ==
  /\ ~deactivated
  /\ deactivated' = TRUE
  /\ deactivating' = activeTempTabs
  /\ UNCHANGED <<activeTempTabs, debounceTimers, openings, tempTabs, nOpens>>

\* The callback after its await, the file deleted or found missing: it
\* disposes of the listeners of the session.
DeactivateUnlinked ==
  /\ deactivating # 0
  /\ tempTabs' = [tempTabs EXCEPT ![deactivating].fileExists = FALSE,
                                  ![deactivating].disposed = TRUE]
  /\ deactivating' = 0
  /\ UNCHANGED <<activeTempTabs, debounceTimers, openings, nOpens, deactivated>>

NextLife ==
  \/ SeparateCommand /\ UNCHANGED <<syncVars, passVars, saveVars, tracked>>
  \/ DebounceFires /\ UNCHANGED <<syncVars, passVars, saveVars, tracked>>
  \/ \E s \in 1..Len(tempTabs) : TabCloses(s) /\ UNCHANGED <<syncVars, passVars, saveVars, tracked>>
  \/ \E s \in 1..Len(tempTabs) : HandlerAfterUnlink(s) /\ UNCHANGED <<syncVars, passVars, saveVars, tracked>>
  \/ \E o \in 1..Len(openings) : AfterCloseTab(o) /\ UNCHANGED <<syncVars, passVars, saveVars, tracked>>
  \/ \E o \in 1..Len(openings) : AfterUnlinkOld(o) /\ UNCHANGED <<syncVars, passVars, saveVars, tracked>>
  \/ \E o \in 1..Len(openings) : AwaitResolves(o) /\ UNCHANGED <<syncVars, passVars, saveVars, tracked>>
  \/ \E o \in 1..Len(openings) : AwaitFails(o) /\ UNCHANGED <<syncVars, passVars, saveVars, tracked>>
  \/ \E o \in 1..Len(openings) : RegisterSession(o) /\ UNCHANGED <<syncVars, passVars, saveVars, tracked>>
  \/ Deactivate /\ UNCHANGED <<syncVars, passVars, saveVars, tracked>>
  \/ DeactivateUnlinked /\ UNCHANGED <<syncVars, passVars, saveVars, tracked>>

SpecLife == InitLife /\ [][NextLife]_vars

\* ------------------------------------------------ passes run one by one
\* The passes of one session as functions of their inputs: the user edits
\* the source, the quiet-period timer fires and the forward pass runs to its
\* end with nothing arriving meanwhile; the mirror is then saved, and the
\* change event of its dirty state runs the reverse pass on the mirror as
\* the forward pass left it.

\* The ranges of a text that are not empty.
NonEmptyRanges(doc) ==
  {Range(PositionAt(doc, s), PositionAt(doc, e)) :
     <<s, e>> \in {x \in (0..Len(doc)) \X (0..Len(doc)) : x[1] < x[2]}}

\* editor.selections with the empty ones left out: one to MaxSpans ranges in
\* the order they were made, no two sharing a character (the editor merges
\* selections that overlap).
EditorSelections(doc) ==
  {sel \in UNION {[1..k -> NonEmptyRanges(doc)] : k \in 1..MaxSpans} :
     \A i, j \in 1..Len(sel) :
       i # j => ~(IsBefore(sel[i].start, sel[j].end) /\ IsBefore(sel[j].start, sel[i].end))}

\* The source documents the command is run on.
PassSources == UNION {TextsOfLen(n) : n \in 1..MaxLen}

\* The session as the command creates it, for the selections that leave a
\* range to track: the ranges stored and the text written to the mirror.
InitPass ==
  /\ source \in PassSources
  /\ \E sel \in EditorSelections(source) :
       /\ validatedRanges(source, sel) # <<>>
       /\ originalRanges = validatedRanges(source, sel)
       /\ mirror = selectedText(source, sel)
  /\ pendingChanges = <<>>
  /\ processingTimeout = "null"
  /\ orphanTimers = 0
  /\ isUpdating = FALSE
  /\ isClosed = FALSE
  /\ inflight = <<>>
  /\ nEdits = 0
  /\ burst = <<>>
  /\ activeTempTabs = 0
  /\ debounceTimers = FALSE
  /\ openings = <<>>
  /\ tempTabs = <<>>
  /\ nOpens = 0
  /\ deactivated = FALSE
  /\ deactivating = 0
  /\ sourceBefore = source
  /\ rangesBefore = originalRanges
  /\ lastPass = "none"
  /\ tracked = <<>>
  /\ NoSaves

\* The user replaces the characters at offsets [s, e) of the source by x,
\* and originalToExtracted takes the change.
SourceEdited(s, e, x) ==
  LET change == [range |-> Range(PositionAt(source, s), PositionAt(source, e)),
                 text |-> x]
  IN  /\ ~isUpdating
      /\ nEdits < MaxBatch
      /\ Len(Splice(source, s, e, x)) <= MaxLen
      /\ source' = Splice(source, s, e, x)
      /\ nEdits' = nEdits + 1
      /\ originalToExtracted(<<change>>)
      /\ sourceBefore' = IF pendingChanges = <<>> THEN source ELSE sourceBefore
      /\ UNCHANGED <<mirror, originalRanges, orphanTimers, isUpdating, isClosed,
                     inflight, burst, rangesBefore, lastPass>>

\* The timer fires and processPendingChanges runs to its end, its applyEdit
\* applied: the change event of the rewrite finds the flag set.
ForwardPassRuns ==
  LET result == applyChangesToOriginalRanges(originalRanges, pendingChanges)
      fullRange == Range(PositionAt(mirror, 0), PositionAt(mirror, Len(mirror)))
  IN  /\ processingTimeout = "armed"
      /\ ~isUpdating
      /\ pendingChanges' = <<>>
      /\ processingTimeout' = "null"
      /\ rangesBefore' = originalRanges
      /\ IF result.thrown
           THEN /\ lastPass' = "thrown"
                /\ UNCHANGED <<mirror, originalRanges>>
           ELSE /\ lastPass' = "forward"
                /\ mirror' = ApplyEdits(mirror,
                     <<[range |-> fullRange,
                        text |-> newExtractedText(source, result.ranges)]>>)
                /\ originalRanges' = result.ranges
      /\ UNCHANGED <<source, orphanTimers, isUpdating, isClosed, inflight, nEdits,
                     burst, sourceBefore>>

\* debouncedAutosave saves the mirror after the forward pass; the change of
\* its dirty state is a change event of the mirror, and extractedToOriginal
\* runs to its end on the text the forward pass wrote.  The editor applies
\* no set of edits two of which overlap: applyEdit then resolves to false
\* or is rejected, and a rejection leaves the flag set.
ReversePassRuns(rejected) ==
  LET plan == ReversePlan(source, originalRanges, mirror)
  IN  /\ lastPass = "forward"
      /\ pendingChanges = <<>>
      /\ ~isUpdating
      /\ rejected => Overlapping(source, plan.edits)
      /\ lastPass' = "reverse"
      /\ sourceBefore' = source
      /\ rangesBefore' = originalRanges
      /\ source' = IF Overlapping(source, plan.edits)
                     THEN source ELSE ApplyEdits(source, plan.edits)
      /\ originalRanges' = IF rejected THEN originalRanges ELSE plan.newOriginalRanges
      /\ isUpdating' = rejected
      /\ UNCHANGED <<mirror, pendingChanges, processingTimeout, orphanTimers, isClosed,
                     inflight, nEdits, burst>>

\* The user's edits of the source: a character typed at an offset, or a
\* stretch of the text deleted or replaced by a typed line break.
SourceEdits ==
  \E s \in 0..Len(source) : \E e \in s..Len(source) : \E x \in Typed \cup {<<>>} :
    /\ s < e \/ x # <<>>
    /\ s < e => x \in {<<>>, <<NL>>}
    /\ SourceEdited(s, e, x)

NextPass ==
  \/ SourceEdits /\ UNCHANGED <<lifeVars, saveVars, tracked>>
  \/ ForwardPassRuns /\ UNCHANGED <<lifeVars, saveVars, tracked>>
  \/ \E rejected \in BOOLEAN :
       ReversePassRuns(rejected) /\ UNCHANGED <<lifeVars, saveVars, tracked>>

SpecPass == InitPass /\ [][NextPass]_vars

\* ---------------------------------------------------- saves of the mirror
\* The saves of the mirror of one session: debouncedAutosave, which the
\* passes call, the saves the user asks for, and saveListener.  A save in
\* progress is [by, stage]: by "auto" or "user", stage "issued" until the
\* editor has written the file and "saved" until its promise resolves.  The
\* editor runs the saves of one document one after another.
InitSave ==
  /\ source = <<>>
  /\ mirror = <<>>
  /\ originalRanges = <<>>
  /\ pendingChanges = <<>>
  /\ processingTimeout = "null"
  /\ orphanTimers = 0
  /\ isUpdating = FALSE
  /\ isClosed = FALSE
  /\ inflight = <<>>
  /\ nEdits = 0
  /\ burst = <<>>
  /\ activeTempTabs = 1
  /\ debounceTimers = FALSE
  /\ openings = <<>>
  /\ tempTabs = <<>>
  /\ nOpens = 0
  /\ deactivated = FALSE
  /\ deactivating = 0
  /\ sourceBefore = <<>>
  /\ rangesBefore = <<>>
  /\ lastPass = "none"
  /\ tracked = <<>>
  /\ NoSaves

\* A pass that has written to the mirror, or was run by an edit of it, ends
\* with debouncedAutosave(): the timer of debounce is cleared and set anew.
PassCallsAutosave ==
  /\ ~isClosed
  /\ dirty' = TRUE
  /\ autosaveTimer' = TRUE
  /\ UNCHANGED <<isProgrammaticSave, saving, originalSavedBy, nSaves, isClosed, activeTempTabs>>

\* The timer of debounce fires: the callback returns when the session is
\* closed, and otherwise sets the flag and awaits extractedDoc.save().
AutosaveFires ==
  /\ autosaveTimer
  /\ autosaveTimer' = FALSE
  /\ IF isClosed
       THEN UNCHANGED <<isProgrammaticSave, saving, nSaves>>
       ELSE /\ nSaves < MaxSaves
            /\ isProgrammaticSave' = TRUE
            /\ saving' = Append(saving, [by |-> "auto", stage |-> "issued"])
            /\ nSaves' = nSaves + 1
  /\ UNCHANGED <<dirty, originalSavedBy, isClosed, activeTempTabs>>

\* The user saves the mirror.
UserSavesMirror ==
  /\ ~isClosed
  /\ nSaves < MaxSaves
  /\ saving' = Append(saving, [by |-> "user", stage |-> "issued"])
  /\ nSaves' = nSaves + 1
  /\ UNCHANGED <<isProgrammaticSave, autosaveTimer, dirty, originalSavedBy, isClosed, activeTempTabs>>

\* The editor carries out the oldest save in progress.  A save the user
\* asked for, or one of a mirror with unsaved changes, writes the file and
\* raises onDidSaveTextDocument: saveListener, for the session the map
\* holds, saves the source document unless isProgrammaticSave is set.
MirrorSaved ==
  /\ saving # <<>>
  /\ Head(saving).stage = "issued"
  /\ saving' = <<[Head(saving) EXCEPT !.stage = "saved"]>> \o Tail(saving)
  /\ dirty' = FALSE
  /\ originalSavedBy' =
       IF (dirty \/ Head(saving).by = "user")
            /\ activeTempTabs # 0 /\ ~isProgrammaticSave
         THEN originalSavedBy \cup {Head(saving).by}
         ELSE originalSavedBy
  /\ UNCHANGED <<isProgrammaticSave, autosaveTimer, nSaves, isClosed, activeTempTabs>>

\* The promise of the oldest save settles, the file written or the save
\* failed: the finally of debouncedAutosave clears the flag.
SaveSettles ==
  /\ saving # <<>>
  /\ saving' = Tail(saving)
  /\ isProgrammaticSave' = IF Head(saving).by = "auto" THEN FALSE ELSE isProgrammaticSave
  /\ UNCHANGED <<autosaveTimer, dirty, originalSavedBy, nSaves, isClosed, activeTempTabs>>

\* closeHandler finds the mirror no longer shown, and awaits the unlink.
MirrorCloses ==
  /\ ~isClosed
  /\ isClosed' = TRUE
  /\ UNCHANGED <<saveVars, activeTempTabs>>

\* closeHandler after its await: activeTempTabs.delete(tempTab.originalUri).
CloseHandlerEnds ==
  /\ isClosed
  /\ activeTempTabs # 0
  /\ activeTempTabs' = 0
  /\ UNCHANGED <<saveVars, isClosed>>

\* What the saves leave as it is.
SaveFrame ==
  UNCHANGED <<source, mirror, originalRanges, pendingChanges, processingTimeout,
              orphanTimers, isUpdating, inflight, nEdits, burst, debounceTimers,
              openings, tempTabs, nOpens, deactivated, deactivating, passVars, tracked>>

NextSave ==
  \/ PassCallsAutosave /\ SaveFrame
  \/ AutosaveFires /\ SaveFrame
  \/ UserSavesMirror /\ SaveFrame
  \/ MirrorSaved /\ SaveFrame
  \/ SaveSettles /\ SaveFrame
  \/ MirrorCloses /\ SaveFrame
  \/ CloseHandlerEnds /\ SaveFrame

SpecSave == InitSave /\ [][NextSave]_vars

\* ------------------------------------------- what the reverse pass replaces
\* The passes run one by one as above, the user editing the mirror too: the
\* reverse pass runs on the ranges as stored, whether or not changes of the
\* source are queued.  tracked marks the characters of the source that are,
\* or have been, inside a stored range, the text a reverse pass wrote, and
\* what the user typed next to a marked character.

\* For each character of doc, whether one of the ranges holds it.
InRanges(doc, ranges) ==
  [i \in 1..Len(doc) |->
     \E j \in 1..Len(ranges) :
       OffsetAt(doc, ranges[j].start) < i /\ i <= OffsetAt(doc, ranges[j].end)]

\* The marks of a text joined with the marks of the ranges over it.
MarkedWith(marks, doc, ranges) ==
  LET held == InRanges(doc, ranges)
  IN  [i \in 1..Len(doc) |-> marks[i] \/ held[i]]

\* The marks after the replace-edits of a reverse pass: what an edit writes
\* is marked, what it leaves keeps its mark.
MarksAfter(marks, doc, edits) ==
  LET o == EditOffsets(doc, edits)
      written == [k \in 1..Len(o) |->
                    [o[k] EXCEPT !.text = [i \in 1..Len(o[k].text) |-> TRUE]]]
  IN  ApplyFrom(marks, SortByFrom(written), 0)

InitTrack ==
  /\ source \in UNION {TextsOfLen(n) : n \in 1..MaxMarked}
  /\ \E sel \in EditorSelections(source) :
       /\ validatedRanges(source, sel) # <<>>
       /\ originalRanges = validatedRanges(source, sel)
       /\ mirror = selectedText(source, sel)
  /\ pendingChanges = <<>>
  /\ processingTimeout = "null"
  /\ orphanTimers = 0
  /\ isUpdating = FALSE
  /\ isClosed = FALSE
  /\ inflight = <<>>
  /\ nEdits = 0
  /\ burst = <<>>
  /\ activeTempTabs = 0
  /\ debounceTimers = FALSE
  /\ openings = <<>>
  /\ tempTabs = <<>>
  /\ nOpens = 0
  /\ deactivated = FALSE
  /\ deactivating = 0
  /\ sourceBefore = source
  /\ rangesBefore = originalRanges
  /\ lastPass = "none"
  /\ tracked = InRanges(source, originalRanges)
  /\ NoSaves

\* The user edits the source, and originalToExtracted takes the change.
SourceEditedTracked ==
  \E s \in 0..Len(source) : \E e \in s..Len(source) : \E x \in Typed \cup {<<>>} :
    /\ s < e \/ x # <<>>
    /\ s < e => x \in {<<>>, <<NL>>}
    /\ SourceEdited(s, e, x)
    /\ tracked' = Splice(tracked, s, e,
                    [i \in 1..Len(x) |-> \/ s >= 1 /\ tracked[s]
                                         \/ e < Len(source) /\ tracked[e + 1]])

\* The forward pass runs to its end.
ForwardPassTracked ==
  /\ ForwardPassRuns
  /\ tracked' = MarkedWith(tracked, source', originalRanges')

\* The user replaces the characters at offsets [s, e) of the mirror by x,
\* and extractedToOriginal runs to its end on the source and the ranges as
\* they are: applyEdit applies the edits, or two of them overlap and it
\* resolves to false or is rejected, a rejection leaving the flag set.
MirrorEdited(s, e, x, rejected) ==
  /\ nEdits < MaxBatch
  /\ Len(Splice(mirror, s, e, x)) <= MaxLen
  /\ mirror' = Splice(mirror, s, e, x)
  /\ nEdits' = nEdits + 1
  /\ IF isClosed \/ isUpdating
       THEN /\ ~rejected
            /\ UNCHANGED <<source, originalRanges, isUpdating, tracked, passVars>>
       ELSE \E plan \in {ReversePlan(source, originalRanges, mirror')} :
            \E applied \in {~Overlapping(source, plan.edits)} :
              /\ rejected => ~applied
              /\ lastPass' = "reverse"
              /\ sourceBefore' = source
              /\ rangesBefore' = originalRanges
              /\ source' = IF applied THEN ApplyEdits(source, plan.edits) ELSE source
              /\ originalRanges' = IF rejected THEN originalRanges
                                               ELSE plan.newOriginalRanges
              /\ isUpdating' = rejected
              /\ tracked' = IF applied
                              THEN MarkedWith(MarksAfter(tracked, source, plan.edits),
                                              source', originalRanges')
                              ELSE MarkedWith(tracked, source, originalRanges')
  /\ UNCHANGED <<pendingChanges, processingTimeout, orphanTimers, isClosed,
                 inflight, burst>>

\* The user's edits of the mirror, as those of the source.
MirrorEdits ==
  \E s \in 0..Len(mirror) : \E e \in s..Len(mirror) : \E x \in Typed \cup {<<>>} :
    \E rejected \in BOOLEAN :
      /\ s < e \/ x # <<>>
      /\ s < e => x \in {<<>>, <<NL>>}
      /\ MirrorEdited(s, e, x, rejected)

NextTrack ==
  \/ SourceEditedTracked /\ UNCHANGED <<lifeVars, saveVars>>
  \/ ForwardPassTracked /\ UNCHANGED <<lifeVars, saveVars>>
  \/ MirrorEdits /\ UNCHANGED <<lifeVars, saveVars>>

SpecTrack == InitTrack /\ [][NextTrack]_vars

\* ----------------------------------------------------------------- claims
\* A settled state of an open session: nothing pending, no timer armed, no
\* pass in flight, the flag clear.
Settled ==
  /\ ~isClosed
  /\ pendingChanges = <<>>
  /\ processingTimeout # "armed"
  /\ orphanTimers = 0
  /\ inflight = <<>>
  /\ ~isUpdating

\* C1: in every settled state of an open session the mirror text is the
\* texts of the source at the ranges of the Range Set, in order, joined by
\* single line breaks with none after the last.
C1_DerivationInvariant ==
  Settled => mirror = newExtractedText(source, originalRanges)

\* C2: in every state the Range Set is sorted and its ranges do not overlap:
\* each range ends at or before the start of every later one.
C2_Disjointness ==
  \A i, j \in 1..Len(originalRanges) :
    i < j => IsBeforeOrEqual(originalRanges[i].end, originalRanges[j].start)

\* C3: the change event of a pass's own edit starts no reverse pass and
\* enqueues no pending change: in the step that applies the edit of a pass,
\* no pass is added to those in flight and pendingChanges stays as it is.
C3_FeedbackSuppression ==
  [][ApplyEditApplied =>
       (Len(inflight') = Len(inflight) /\ pendingChanges' = pendingChanges)]_vars

\* C4: at no time are two passes of the session in flight together.
C4_PassesSerialized == Len(inflight) <= 1

\* C5: a user's change of the source whose event arrives while a pass is in
\* flight with the flag set is queued as a pending change.
C5_EditsDuringPassQueued ==
  [][(UserEditsSource /\ isUpdating /\ inflight # <<>>) =>
       (Len(pendingChanges') = Len(pendingChanges) + 1
        /\ processingTimeout' = "armed")]_vars

\* C6: the changes notified one after another, each before the timer armed
\* by the one before it has fired, are together the batch of the one pass
\* that timer starts: while the timer is armed, the pending changes are
\* those changes in their order of arrival.
C6_QuietPeriodCoalescing ==
  processingTimeout = "armed" => pendingChanges = burst

\* C7: a change event of the mirror is buffered without processing: the
\* step that delivers a user's edit of the mirror starts no reverse pass
\* (a pass starts only when a mirror-side timer fires).
C7_MirrorSideAccumulation ==
  [][UserEditsMirror => inflight' = inflight]_vars

\* C8: in every state at most one session of the source document is open
\* (not closed, its listeners registered).
C8_SingleOpenSession ==
  Cardinality({s \in 1..Len(tempTabs) : IsOpen(tempTabs[s])}) <= 1

\* C9: once the session is closed no timer of it is armed, none of its
\* changes is pending, and no pass of it starts, writes to a buffer or
\* stores a Range Set.
C9_NoReconciliationAfterClose ==
  [][isClosed =>
       /\ processingTimeout' # "armed" /\ orphanTimers' = 0
       /\ pendingChanges' = <<>>
       /\ UNCHANGED <<source, mirror, originalRanges>>
       /\ Len(inflight') <= Len(inflight)]_vars

\* C10: the flag is set only while a pass is in flight: a pass whose edit
\* failed has cleared it on its way out.
C10_GuardReleasedOnFailure ==
  inflight = <<>> => ~isUpdating

\* The pieces from the i-th on, joined by line breaks.
RECURSIVE JoinFrom(_, _)
JoinFrom(pieces, i) ==
  IF i > Len(pieces) THEN <<>>
  ELSE pieces[i] \o (IF i < Len(pieces) THEN <<NL>> ELSE <<>>) \o JoinFrom(pieces, i + 1)

\* The text the i-th of k ranges is given by position: the i-th piece of the
\* mirror, the last range taking the pieces from the k-th on, a range past
\* the pieces the empty text.
PositionalPiece(pieces, i, k) ==
  IF i > Len(pieces) THEN <<>>
  ELSE IF i = k THEN JoinFrom(pieces, k) ELSE pieces[i]

\* C11: a reverse pass over k ranges issues one replace-edit per range, the
\* i-th range given the i-th piece of the mirror text by position, and
\* stores k ranges.
C11_PositionalReverseMapping ==
  [][(UserEditsMirror /\ ~isUpdating) =>
       LET pass == inflight'[Len(inflight')]
           pieces == SplitNL(mirror')
           k == Len(originalRanges)
       IN  /\ Len(pass.edits) = k
           /\ Len(pass.newRanges) = k
           /\ \A i \in 1..k :
                /\ pass.edits[i].range = originalRanges[i]
                /\ pass.edits[i].text = PositionalPiece(pieces, i, k)]_vars

\* The range of the text `after` at the offsets of S in the text `before`,
\* its start moved by ds characters and its end by de.
MovedRange(before, after, S, ds, de) ==
  Range(PositionAt(after, OffsetAt(before, S.start) + ds),
        PositionAt(after, OffsetAt(before, S.end) + de))

\* The number of characters a change adds to the text `before`.
LengthDelta(before, c) ==
  Len(c.text) - (OffsetAt(before, c.range.end) - OffsetAt(before, c.range.start))

\* Range r lies within range m.
Within(r, m) == IsBeforeOrEqual(m.start, r.start) /\ IsBeforeOrEqual(r.end, m.end)

\* C12: a forward pass for one insertion of text at the end or at the start
\* of a tracked range leaves a range whose text holds the range's previous
\* text with the inserted text after it or before it, and the mirror holds
\* that text.
C12_BoundaryInsertionCaptured ==
  [][(ForwardPassRuns /\ Len(pendingChanges) = 1) =>
       LET c == pendingChanges[1] IN
       \A i \in 1..Len(originalRanges) :
         LET S == originalRanges[i]
             old == GetText(sourceBefore, S)
             grown == IF c.range.start = S.end THEN old \o c.text ELSE c.text \o old
         IN  (/\ c.range.start = c.range.end
              /\ c.text # <<>>
              /\ c.range.start = S.end \/ c.range.start = S.start)
             => /\ \E j \in 1..Len(originalRanges') :
                     Includes(GetText(source, originalRanges'[j]), grown)
                /\ Includes(mirror', grown)]_vars

\* C13: the reverse pass run on the mirror text a forward pass has just
\* written changes neither the source text, nor the Range Set, nor the
\* mirror text.
C13_RoundTripNoOp ==
  [][(\E rejected \in BOOLEAN : ReversePassRuns(rejected)) =>
       UNCHANGED <<source, originalRanges, mirror>>]_vars

\* C15: when the session is created the mirror's text is the derivation of
\* the ranges the session stores: their source texts joined by single line
\* breaks, none leading, doubled or trailing.
C15_SeededByDerivation ==
  (lastPass = "none" /\ nEdits = 0) => mirror = newExtractedText(source, originalRanges)

\* C17: for one change whose replaced region lies within a tracked range,
\* the forward pass keeps the start of the range and moves its end by the
\* length of the new text less the length of the replaced text.
C17_TranslateInside ==
  [][(ForwardPassRuns /\ Len(pendingChanges) = 1) =>
       LET c == pendingChanges[1] IN
       \A i \in 1..Len(originalRanges) :
         LET S == originalRanges[i]
             expected == MovedRange(sourceBefore, source, S, 0, LengthDelta(sourceBefore, c))
         IN  (IsBeforeOrEqual(S.start, c.range.start) /\ IsBeforeOrEqual(c.range.end, S.end))
             => /\ \E j \in 1..Len(originalRanges') : Within(expected, originalRanges'[j])
                /\ Len(originalRanges) = 1 => originalRanges' = <<expected>>]_vars

\* C18: for one change whose replaced region ends before the start of a
\* tracked range, the forward pass shifts both ends of the range so that it
\* covers the same characters as before; a change that starts after the end
\* of the range leaves it as it is.
C18_TranslateLeft ==
  [][(ForwardPassRuns /\ Len(pendingChanges) = 1) =>
       LET c == pendingChanges[1]
           d == LengthDelta(sourceBefore, c)
       IN
       \A i \in 1..Len(originalRanges) :
         LET S == originalRanges[i]
             shifted == MovedRange(sourceBefore, source, S, d, d)
         IN  /\ IsBefore(c.range.end, S.start) =>
                  /\ \E j \in 1..Len(originalRanges') : Within(shifted, originalRanges'[j])
                  /\ Len(originalRanges) = 1 => originalRanges' = <<shifted>>
             /\ IsAfter(c.range.start, S.end) =>
                  /\ \E j \in 1..Len(originalRanges') : Within(S, originalRanges'[j])
                  /\ Len(originalRanges) = 1 => originalRanges' = <<S>>]_vars

\* Two ranges overlap or touch.
Touching(a, b) == IsBeforeOrEqual(a.start, b.end) /\ IsBeforeOrEqual(b.start, a.end)

\* The ranges of T within m cannot be split in two groups with no range of
\* one touching a range of the other: together they cover m without a gap.
Chained(T, m) ==
  LET inside == {k \in 1..Len(T) : Within(T[k], m)}
  IN  /\ inside # {}
      /\ \E k \in inside : T[k].start = m.start
      /\ \E k \in inside : T[k].end = m.end
      /\ \A A \in SUBSET inside :
           (A # {} /\ A # inside) =>
             \E a \in A : \E b \in inside \ A : Touching(T[a], T[b])

\* C19: the Range Set a forward pass stores is sorted by start, each range
\* ending at or before the start of the next, and covers what the translated
\* ranges cover: every translated range lies within a stored one, translated
\* ranges that overlap or touch lie within the same stored one, and every
\* stored range runs from the start of one translated range to the end of
\* one, over translated ranges that leave no gap.
C19_MergePostcondition ==
  [][(ForwardPassRuns /\ lastPass' = "forward") =>
       LET T == TranslateAll(originalRanges, pendingChanges).ranges
           M == originalRanges'
       IN  /\ \A i \in 1..(Len(M) - 1) :
                /\ IsBeforeOrEqual(M[i].start, M[i + 1].start)
                /\ IsBeforeOrEqual(M[i].end, M[i + 1].start)
           /\ \A k \in 1..Len(T) : \E j \in 1..Len(M) : Within(T[k], M[j])
           /\ \A k, l \in 1..Len(T) :
                Touching(T[k], T[l]) =>
                  \E j \in 1..Len(M) : Within(T[k], M[j]) /\ Within(T[l], M[j])
           /\ \A j \in 1..Len(M) : Chained(T, M[j])]_vars

\* A forward pass has coalesced two translated ranges.
C19_Witness ==
  /\ lastPass = "forward"
  /\ Len(originalRanges) < Len(rangesBefore)

\* Nothing of the session is left to run: no timer is armed and no pass is
\* suspended on its edit.
Quiescent ==
  /\ processingTimeout # "armed"
  /\ orphanTimers = 0
  /\ inflight = <<>>

\* C14: once its timers have fired and its edits have completed, the open
\* session is in a settled state: when nothing of it is left to run, no
\* change is pending and the flag is clear.
C14_QuiescentIsSettled ==
  (~isClosed /\ Quiescent) => Settled

\* C16: when deactivate has finished with a session, the session is closed:
\* its state is flipped to closed, its listeners are disposed of and its
\* file is deleted.
C16_ShutdownClosesSessions ==
  [][DeactivateUnlinked =>
       /\ tempTabs'[deactivating].isClosed
       /\ tempTabs'[deactivating].disposed
       /\ ~tempTabs'[deactivating].fileExists]_vars

\* C20: the teardown of a session by its closeHandler removes from the map
\* no entry but the session's own: a step of the handler of session s
\* leaves the entry of another session where it is.
C20_TeardownRemovesOwnEntry ==
  [][\A s \in 1..Len(tempTabs) :
       (TabCloses(s) \/ HandlerAfterUnlink(s)) =>
         (activeTempTabs \in {0, s} \/ activeTempTabs' = activeTempTabs)]_vars

\* C21: no save of the mirror made by debouncedAutosave makes saveListener
\* save the source document.
C21_AutosaveNeverSavesSource == "auto" \notin originalSavedBy

\* The characters of the source the edits of a reverse pass replace, the
\* mirror having become newText.
Replaced(newText) ==
  LET o == EditOffsets(source, ReversePlan(source, originalRanges, newText).edits)
  IN  {i \in 1..Len(source) : \E k \in 1..Len(o) : o[k].from < i /\ i <= o[k].to}

\* C22: every character of the source that the applied edits of a reverse
\* pass replace is a tracked character; text that was never inside a
\* tracked region is left as it is, also when changes of the source are
\* queued and not yet reconciled.
C22_ReverseChangesOnlyTracked ==
  [][(MirrorEdits /\ lastPass' = "reverse" /\ source' # source)
       => \A i \in Replaced(mirror') : tracked[i]]_vars

====
